---- MODULE Spec2Model ----
(***************************************************************************)
(* Model of ksstech/log: log.c, the replacement of the esp-idf log module  *)
(* that redirects esp_log_write()/esp_log_writev() to the syslog sink      *)
(* xvSyslog().                                                             *)
(*                                                                         *)
(* C strings (tag, format) are sequences of bytes, one 1-character string  *)
(* per byte ("ESC" stands for the byte \033); the terminating NUL is not   *)
(* stored, it sits at 0-based index Len(s).  A va_list is the pair of the  *)
(* caller's argument list and a cursor counting the arguments consumed.    *)
(***************************************************************************)
EXTENDS Integers, Sequences, FiniteSets, TLC

\* ------------------------------------------------------------------------
\* esp_log_level_t
ESP_LOG_NONE    == 0
ESP_LOG_ERROR   == 1
ESP_LOG_WARN    == 2
ESP_LOG_INFO    == 3
ESP_LOG_DEBUG   == 4
ESP_LOG_VERBOSE == 5

Levels == ESP_LOG_NONE .. ESP_LOG_VERBOSE

\* ------------------------------------------------------------------------
\* bounds of the model
NumCtx == 2          \* execution contexts of the concurrent specification
MaxFmtLen == 19      \* longest format of the generated family

\* ------------------------------------------------------------------------
\* byte strings used as inputs
Hdr        == <<"%", "c", " ", "(", "%", "d", ")", " ", "%", "s", ":">>
Colour     == <<"ESC", "[", "0", ";", "3", "2", "m">>
Space      == <<" ">>
PctS       == <<"%", "s">>
Connecting == <<"c", "o", "n", "n", "e", "c", "t", "i", "n", "g", ".", ".", ".">>
Failed     == <<"F", "a", "i", "l", "e", "d", ":", " ", "%", "d">>

TagWifi  == <<"w", "i", "f", "i">>
TagApp   == <<"a", "p", "p">>
TagWifi2 == <<"w", "i", "f", "i", "2">>
TagWIFI  == <<"W", "I", "F", "I">>
TagStar  == <<"*">>

Tags == {TagWifi, TagApp, TagWifi2}

Prefixes == {<<>>, Hdr, Hdr \o Space, Colour \o Hdr, Colour \o Hdr \o Space}
Bodies   == {<<>>, PctS, Connecting}

\* ':' at offset 10 and at offset 17
BothColons == Hdr \o <<"a", "b", "c", "d", "e", "f", ":", "%", "s">>
\* longer than 18 bytes, with its only ':' at offset 20
LongMsg    == Connecting \o Space \o Failed

Formats == {p \o b : p \in Prefixes, b \in Bodies} \cup {Failed, BothColons, LongMsg}

ArgLists == {<<"5">>, <<"tagPtr", "ts">>}

\* the calls made through the variadic entry point
WriteFormats == {PctS, Failed, Hdr \o Space \o Connecting}
WriteTags    == {TagWifi, TagApp, TagWIFI}

\* ------------------------------------------------------------------------
\* C library pieces used by log.c
xstrlen(s) == Len(s)

\* the byte at 0-based index i of a C string: the NUL terminator at Len(s)
CharAt(s, i) == IF i < Len(s) THEN s[i + 1] ELSE "NUL"

\* strcmp(a, b) == 0
strcmp0(a, b) ==
    /\ Len(a) = Len(b)
    /\ \A i \in 1..Len(a) : a[i] = b[i]

va_start(list) == [list |-> list, cur |-> 0]
va_arg(ap)     == [ap EXCEPT !.cur = @ + 1]

\* the arguments still to be consumed from a va_list
Remaining(ap) == SubSeq(ap.list, ap.cur + 1, Len(ap.list))

\* ------------------------------------------------------------------------
\* mutant: the table without its entry for ESP_LOG_NONE
esp_log_xlate_shifted == <<3, 4, 5, 6, 7, 7>>

\* static data of log.c
esp_log_xlate == <<0, 3, 4, 5, 6, 7>>

DefaultLevel == ESP_LOG_WARN

VARIABLES
    s_log_default_level,   \* the threshold
    op,                    \* the last call made: name and parameters
    sink,                  \* the xvSyslog calls made by the last call
    reads,                 \* format indices the last call read with format[i]
    scanned,               \* the last call handed format to xstrlen
    cursor,                \* va_list cursor when the last call returned
    resLen,                \* <<Len>> as line 75 of the last call tested it, <<>> if it did not
    ret,                   \* value returned by the last esp_log_level_get
    lastSet,               \* level of the latest esp_log_level_set
    pc,                    \* per context: "idle", or the line of esp_log_writev it is at
    cin,                   \* per context: the parameters of its latest write call
    cthr,                  \* per context: the threshold value its call read at line 47
    nread,                 \* per context: reads of the threshold made by its call
    seen,                  \* per context: threshold values current during its call
    cout                   \* per context: the xvSyslog calls made by its call

seqvars == <<op, sink, reads, scanned, cursor, resLen, ret>>
ctxvars == <<pc, cin, cthr, nread, seen, cout>>
vars    == <<s_log_default_level, lastSet, seqvars, ctxvars>>

Ctx == 1..NumCtx

\* no value: outside esp_log_level_t
NoRet == ESP_LOG_NONE - 1

OpRec(name, level, tag, format, args) ==
    [name |-> name, level |-> level, tag |-> tag, format |-> format, args |-> args]

\* ------------------------------------------------------------------------
\* mutant: the comparison the other way round
EligibleInverted(level, threshold) == level >= threshold

\* esp_log_writev, line 47: the threshold test
Eligible(level, threshold) == level <= threshold

\* mutant: the compile-time default instead of the variable
LoadThresholdConst == DefaultLevel

\* line 47: the read of the threshold word
LoadThreshold == s_log_default_level

\* mutant: the offset-10 test before the offset-17 test
HeaderIdxTenFirst(format) ==
    LET L == xstrlen(format)
    IN  IF L > 10 /\ CharAt(format, 10) = ":" THEN 11
        ELSE IF L > 17 /\ CharAt(format, 17) = ":" THEN 18
        ELSE 0

\* mutant: the separator behind the ':' skipped too, whether it is there or not
HeaderIdxPastColon(format) ==
    LET L == xstrlen(format)
    IN  IF L > 17 /\ CharAt(format, 17) = ":" THEN 19
        ELSE IF L > 10 /\ CharAt(format, 10) = ":" THEN 12
        ELSE 0

\* lines 58-64: the offset of the message behind a recognised header
HeaderIdx(format) ==
    LET L == xstrlen(format)
    IN  IF L > 17 /\ CharAt(format, 17) = ":" THEN 18
        ELSE IF L > 10 /\ CharAt(format, 10) = ":" THEN 11
        ELSE 0

\* lines 58-60: the indices read by format[17] and format[10]; && and
\* else-if short-circuit
HeaderReads(format) ==
    LET L == xstrlen(format)
    IN  (IF L > 17 THEN {17} ELSE {})
        \cup (IF (~(L > 17 /\ CharAt(format, 17) = ":")) /\ L > 10 THEN {10} ELSE {})

\* line 67: format += Idx
Advance(format, Idx) == SubSeq(format, Idx + 1, Len(format))

\* mutant: the spill outside the if (Idx)
SpillAlways(ap, Idx) == va_arg(va_arg(ap))

\* lines 66-73: two va_arg calls when a header was recognised
Spill(ap, Idx) == IF Idx # 0 THEN va_arg(va_arg(ap)) ELSE ap

\* mutant: strncmp(tag, "wifi", 4) instead of strcmp
IsWifiCRLFPrefix(Len0, format, tag) ==
    Len0 = 2 /\ strcmp0(format, PctS) /\ Len(tag) >= 4 /\ strcmp0(SubSeq(tag, 1, 4), TagWifi)

\* mutant: the tag not compared at all
IsWifiCRLFAnyTag(Len0, format, tag) ==
    Len0 = 2 /\ strcmp0(format, PctS)

\* line 79: the duplicate or extra CRLF line of a "wifi" event
IsWifiCRLF(Len0, format, tag) ==
    Len0 = 2 /\ strcmp0(format, PctS) /\ strcmp0(tag, TagWifi)

\* mutant: the level handed over without translation
SinkCallRawLevel(level, tag, format, ap) ==
    [Priority |-> level, MsgID |-> tag, format |-> format, args |-> ap]

\* line 85: the call of the sink
SinkCall(level, tag, format, ap) ==
    [Priority |-> esp_log_xlate[level + 1], MsgID |-> tag, format |-> format, args |-> ap]

\* lines 52-85: the body run when the level passes the threshold
WritevBody(level, tag, format, ap) ==
    LET L0   == xstrlen(format)
        Idx  == HeaderIdx(format)
        fmt1 == Advance(format, Idx)
        L1   == L0 - Idx
        ap1  == Spill(ap, Idx)
    IN  [sink    |-> IF L1 = 0 THEN <<>>
                     ELSE IF IsWifiCRLF(L1, fmt1, tag) THEN <<>>
                     ELSE <<SinkCall(level, tag, fmt1, ap1)>>,
         reads   |-> HeaderReads(format),
         scanned |-> TRUE,
         len     |-> <<L1>>,
         ap      |-> ap1]

\* lines 46-91
Writev(threshold, level, tag, format, ap) ==
    IF Eligible(level, threshold)
    THEN WritevBody(level, tag, format, ap)
    ELSE [sink |-> <<>>, reads |-> {}, scanned |-> FALSE, len |-> <<>>, ap |-> ap]

\* ------------------------------------------------------------------------
NoCall == OpRec("none", 0, <<>>, <<>>, <<>>)

Init ==
    /\ pc = [p \in Ctx |-> "idle"]
    /\ cin = [p \in Ctx |-> NoCall]
    /\ cthr = [p \in Ctx |-> NoRet]
    /\ nread = [p \in Ctx |-> 0]
    /\ seen = [p \in Ctx |-> {}]
    /\ cout = [p \in Ctx |-> <<>>]
    /\ s_log_default_level = DefaultLevel
    /\ op = OpRec("init", 0, <<>>, <<>>, <<>>)
    /\ sink = <<>>
    /\ reads = {}
    /\ scanned = FALSE
    /\ cursor = 0
    /\ resLen = <<>>
    /\ ret = NoRet
    /\ lastSet = ESP_LOG_WARN

\* mutant: only the tag "*" sets the level
esp_log_level_set_star(tag, level) ==
    /\ s_log_default_level' = IF strcmp0(tag, TagStar) THEN level ELSE s_log_default_level
    /\ lastSet' = level
    /\ op' = OpRec("level_set", level, tag, <<>>, <<>>)
    /\ sink' = <<>>
    /\ reads' = {}
    /\ scanned' = FALSE
    /\ cursor' = 0
    /\ resLen' = <<>>
    /\ ret' = NoRet

\* void esp_log_level_set(const char* tag, esp_log_level_t level)
esp_log_level_set(tag, level) ==
    /\ s_log_default_level' = level
    /\ lastSet' = level
    /\ op' = OpRec("level_set", level, tag, <<>>, <<>>)
    /\ sink' = <<>>
    /\ reads' = {}
    /\ scanned' = FALSE
    /\ cursor' = 0
    /\ resLen' = <<>>
    /\ ret' = NoRet

\* esp_log_level_t esp_log_level_get(const char* tag)
esp_log_level_get(tag) ==
    /\ ret' = s_log_default_level
    /\ op' = OpRec("level_get", 0, tag, <<>>, <<>>)
    /\ sink' = <<>>
    /\ reads' = {}
    /\ scanned' = FALSE
    /\ cursor' = 0
    /\ resLen' = <<>>
    /\ UNCHANGED <<s_log_default_level, lastSet>>

WriteEffects(name, level, tag, format, args) ==
    LET r == Writev(LoadThreshold, level, tag, format, va_start(args))
    IN  /\ op' = OpRec(name, level, tag, format, args)
        /\ sink' = r.sink
        /\ reads' = r.reads
        /\ scanned' = r.scanned
        /\ cursor' = r.ap.cur
        /\ resLen' = r.len
        /\ ret' = NoRet
        /\ UNCHANGED <<s_log_default_level, lastSet>>

\* void esp_log_writev(level, tag, format, va_list args)
esp_log_writev(level, tag, format, args) ==
    WriteEffects("writev", level, tag, format, args)

\* void esp_log_write(level, tag, format, ...): va_start, esp_log_writev, va_end
esp_log_write(level, tag, format, args) ==
    WriteEffects("write", level, tag, format, args)

DoSet    == \E t \in {TagStar, TagWifi}, l \in Levels : esp_log_level_set(t, l)
DoGet    == \E t \in {TagStar, TagWifi} : esp_log_level_get(t)
DoWritev == \E l \in Levels, t \in Tags, f \in Formats, a \in ArgLists :
                esp_log_writev(l, t, f, a)
DoWrite  == \E l \in Levels, t \in WriteTags, f \in WriteFormats, a \in ArgLists :
                esp_log_write(l, t, f, a)

Next ==
    \/ DoSet /\ UNCHANGED ctxvars
    \/ DoGet /\ UNCHANGED ctxvars
    \/ DoWritev /\ UNCHANGED ctxvars
    \/ DoWrite /\ UNCHANGED ctxvars

Spec == Init /\ [][Next]_vars

\* ------------------------------------------------------------------------
\* Formats of every length 0..MaxFmtLen: filler bytes with ':' at the 0-based
\* offsets of cols, the two offsets the code tests and their neighbours.
Filler(n, cols) == [i \in 1..n |-> IF (i - 1) \in cols THEN ":" ELSE "x"]

FillerCols == (SUBSET {10, 17}) \cup {{9, 16}, {11, 18}}

FillerFormats == {Filler(n, cols) : n \in 0..MaxFmtLen, cols \in FillerCols}

FTags == {TagWifi, TagApp}
FArgs == <<"tagPtr", "ts">>

DoWritevF == \E l \in Levels, t \in FTags, f \in FillerFormats :
                 esp_log_writev(l, t, f, FArgs)

NextF ==
    \/ DoSet /\ UNCHANGED ctxvars
    \/ DoWritevF /\ UNCHANGED ctxvars

SpecF == Init /\ [][NextF]_vars

\* ------------------------------------------------------------------------
\* Several execution contexts: esp_log_writev runs line by line, the only
\* shared word is s_log_default_level, read at line 47 and stored by
\* esp_log_level_set without a lock.
CLevels    == {ESP_LOG_ERROR, ESP_LOG_INFO}
CSetLevels == {ESP_LOG_NONE, ESP_LOG_INFO}
CSites     == {<<TagWifi, PctS>>, <<TagApp, Hdr \o Space \o Connecting>>}
CArgs      == <<"tagPtr", "ts">>

\* context p enters esp_log_writev
CCall(p, level, tag, format, args) ==
    /\ pc[p] = "idle"
    /\ pc' = [pc EXCEPT ![p] = "L47"]
    /\ cin' = [cin EXCEPT ![p] = OpRec("writev", level, tag, format, args)]
    /\ cthr' = [cthr EXCEPT ![p] = NoRet]
    /\ nread' = [nread EXCEPT ![p] = 0]
    /\ seen' = [seen EXCEPT ![p] = {s_log_default_level}]
    /\ cout' = [cout EXCEPT ![p] = <<>>]
    /\ UNCHANGED <<s_log_default_level, lastSet, seqvars>>

\* line 47: if (level <= s_log_default_level); the else branch returns
CTest(p) ==
    /\ pc[p] = "L47"
    /\ cthr' = [cthr EXCEPT ![p] = LoadThreshold]
    /\ nread' = [nread EXCEPT ![p] = @ + 1]
    /\ pc' = [pc EXCEPT ![p] = IF Eligible(cin[p].level, LoadThreshold) THEN "L52" ELSE "idle"]
    /\ UNCHANGED <<s_log_default_level, lastSet, seqvars, cin, seen, cout>>

\* lines 52-85: the body, on the call's own format, tag and va_list
CBody(p) ==
    /\ pc[p] = "L52"
    /\ cout' = [cout EXCEPT ![p] =
                   WritevBody(cin[p].level, cin[p].tag, cin[p].format, va_start(cin[p].args)).sink]
    /\ pc' = [pc EXCEPT ![p] = "idle"]
    /\ UNCHANGED <<s_log_default_level, lastSet, seqvars, cin, cthr, nread, seen>>

\* an idle context calls esp_log_level_set while others are inside a write
CSet(p, tag, level) ==
    /\ pc[p] = "idle"
    /\ esp_log_level_set(tag, level)
    /\ seen' = [q \in Ctx |-> IF pc[q] # "idle" THEN seen[q] \cup {level} ELSE seen[q]]
    /\ UNCHANGED <<pc, cin, cthr, nread, cout>>

DoCCall == \E p \in Ctx, l \in CLevels, c \in CSites : CCall(p, l, c[1], c[2], CArgs)
DoCTest == \E p \in Ctx : CTest(p)
DoCBody == \E p \in Ctx : CBody(p)
DoCSet  == \E p \in Ctx, l \in CSetLevels : CSet(p, TagStar, l)

NextC == DoCCall \/ DoCTest \/ DoCBody \/ DoCSet

SpecC == Init /\ [][NextC]_vars

Returned(p) == pc[p] = "idle" /\ cin[p].name = "writev"

\* ------------------------------------------------------------------------
\* Properties of the sequential specification Spec.  op holds the last call,
\* sink, reads, scanned and cursor what that call did.
IsWriteOp == op.name \in {"write", "writev"}

\* C1 (filtering): a write whose level is numerically greater than the
\* threshold makes no xvSyslog call, does not hand the format to xstrlen,
\* reads no format byte and consumes no argument, for every tag and format.
C1_Filtering ==
    (IsWriteOp /\ op.level > s_log_default_level)
        => (sink = <<>> /\ ~scanned /\ reads = {} /\ cursor = 0)

\* a filtered call whose format carries the duplicate header
C1_Witness ==
    /\ IsWriteOp
    /\ op.level > s_log_default_level
    /\ op.format = Hdr \o Space \o Connecting
    /\ sink = <<>>

\* C2 (pass-through): a write with level <= threshold whose format is not
\* empty, has no ':' at offset 10 or 17 and is not "%s" with tag "wifi"
\* calls xvSyslog exactly once with the same tag, the same format and the
\* va_list untouched.
C2_PassThrough ==
    ( /\ IsWriteOp
      /\ op.level <= s_log_default_level
      /\ Len(op.format) > 0
      /\ ~(Len(op.format) > 10 /\ op.format[11] = ":")
      /\ ~(Len(op.format) > 17 /\ op.format[18] = ":")
      /\ ~(op.format = PctS /\ op.tag = TagWifi) )
        => ( /\ Len(sink) = 1
             /\ sink[1].MsgID = op.tag
             /\ sink[1].format = op.format
             /\ sink[1].args = [list |-> op.args, cur |-> 0]
             /\ cursor = 0 )

\* a format longer than 18 bytes without artifact is forwarded as it is
C2_Witness ==
    /\ IsWriteOp
    /\ op.format = LongMsg
    /\ op.tag = TagWifi
    /\ Len(sink) = 1
    /\ sink[1].format = LongMsg

\* C3 (duplicate-header scenario): with threshold >= Info,
\* Write(Info, "wifi", "%c (%d) %s: connecting...", tagPtr, ts) calls xvSyslog
\* once with tag "wifi", residual format exactly "connecting..." and no
\* argument left in the va_list.
C3_Scenario ==
    ( /\ IsWriteOp
      /\ s_log_default_level >= ESP_LOG_INFO
      /\ op.level = ESP_LOG_INFO
      /\ op.tag = TagWifi
      /\ op.format = Hdr \o Space \o Connecting
      /\ op.args = <<"tagPtr", "ts">> )
        => ( /\ Len(sink) = 1
             /\ sink[1].MsgID = TagWifi
             /\ sink[1].format = Connecting
             /\ Remaining(sink[1].args) = <<>> )

C5_Original ==
    ( /\ IsWriteOp
      /\ s_log_default_level = ESP_LOG_WARN
      /\ op.level = ESP_LOG_ERROR
      /\ op.tag = TagApp
      /\ op.format = Failed
      /\ op.args = <<"5">> )
        => (sink = <<>> /\ ~scanned /\ reads = {} /\ cursor = 0)

\* C5 (threshold scenario, amended): Write(Error, "app", "Failed: %d", 5)
\* passes a threshold of Warn (Error <= Warn) and calls xvSyslog exactly once
\* with priority 3, tag "app", the format and the va_list unchanged; it is
\* dropped without side effect when the threshold is None, the only
\* threshold below Error.
C5_Amended ==
    ( /\ IsWriteOp
      /\ op.level = ESP_LOG_ERROR
      /\ op.tag = TagApp
      /\ op.format = Failed
      /\ op.args = <<"5">> )
        => ( /\ s_log_default_level = ESP_LOG_WARN =>
                  sink = << [Priority |-> 3, MsgID |-> TagApp, format |-> Failed,
                             args |-> [list |-> <<"5">>, cur |-> 0]] >>
             /\ s_log_default_level = ESP_LOG_NONE =>
                  (sink = <<>> /\ ~scanned /\ reads = {} /\ cursor = 0) )

C5_Witness ==
    /\ IsWriteOp
    /\ s_log_default_level = ESP_LOG_WARN
    /\ op.level = ESP_LOG_ERROR
    /\ op.tag = TagApp
    /\ op.format = Failed
    /\ op.args = <<"5">>
    /\ Len(sink) = 1

C7_Priority ==
    (IsWriteOp /\ sink # <<>>)
        => sink[1].Priority =
             CASE op.level = ESP_LOG_NONE    -> 0
               [] op.level = ESP_LOG_ERROR   -> 3
               [] op.level = ESP_LOG_WARN    -> 4
               [] op.level = ESP_LOG_INFO    -> 5
               [] op.level = ESP_LOG_DEBUG   -> 6
               [] op.level = ESP_LOG_VERBOSE -> 7

C7_Witness ==
    /\ IsWriteOp
    /\ op.level = ESP_LOG_VERBOSE
    /\ op.tag = TagApp
    /\ Len(sink) = 1
    /\ sink[1].Priority = 7

\* C9 as stated: every write with level <= threshold, a non-empty format and a
\* tag other than "wifi" calls xvSyslog exactly once, header-only formats
\* included.
C9_Original ==
    ( /\ IsWriteOp
      /\ op.level <= s_log_default_level
      /\ Len(op.format) > 0
      /\ op.tag # TagWifi )
        => Len(sink) = 1

\* C9 (amended): a write with level <= threshold and a tag other than "wifi"
\* calls xvSyslog exactly once when something of the format is left behind
\* the header, a bare "%s" included; a format that is empty or only a header
\* ending in the ':' at offset 10 or 17 is suppressed for every tag.
C9_Amended ==
    ( /\ IsWriteOp
      /\ op.level <= s_log_default_level
      /\ op.tag # TagWifi )
        => IF \/ Len(op.format) = 0
              \/ (Len(op.format) = 18 /\ op.format[18] = ":")
              \/ (Len(op.format) = 11 /\ op.format[11] = ":")
           THEN sink = <<>>
           ELSE Len(sink) = 1

\* a bare "%s" of tag "app" is forwarded
C9_Witness ==
    /\ IsWriteOp
    /\ op.tag = TagApp
    /\ op.format = PctS
    /\ Len(sink) = 1
    /\ sink[1].format = PctS
    /\ cursor = 0

\* C10 (ESP_LOG_NONE means no log output): while the threshold is
\* ESP_LOG_NONE no write, at any level, calls xvSyslog.
C10_NoneSilent ==
    (IsWriteOp /\ s_log_default_level = ESP_LOG_NONE) => sink = <<>>

\* C11 (class A stripping, once): a write with level <= threshold advances
\* the format by 18 when it is longer than 17 with ':' at offset 17, else by
\* 11 when it is longer than 10 with ':' at offset 10, and consumes exactly
\* two arguments in either case; the offset-17 test wins when both hold, so
\* the advance is never 29 nor are four arguments consumed; without a match
\* nothing is advanced or consumed.  xvSyslog, if called, gets exactly that
\* residual format and that va_list.
C11_StripOnce ==
    (IsWriteOp /\ op.level <= s_log_default_level)
        => LET n == Len(op.format)
               k == IF n > 17 /\ op.format[18] = ":" THEN 18
                    ELSE IF n > 10 /\ op.format[11] = ":" THEN 11
                    ELSE 0
           IN  /\ resLen = <<n - k>>
               /\ cursor = IF k = 0 THEN 0 ELSE 2
               /\ sink # <<>> =>
                    /\ Len(sink) = 1
                    /\ sink[1].format = SubSeq(op.format, k + 1, n)
                    /\ sink[1].args = [list |-> op.args, cur |-> IF k = 0 THEN 0 ELSE 2]

\* ':' at offset 10 and at offset 17: advanced by 18, two arguments consumed
C11_Witness ==
    /\ IsWriteOp
    /\ op.format = BothColons
    /\ cursor = 2
    /\ Len(sink) = 1
    /\ sink[1].format = PctS
    /\ resLen = <<2>>

\* C12 (header-only records): a write with level <= threshold whose format
\* is only the duplicate header, "%c (%d) %s:" or "%c (%d) %s: ", bare or
\* behind the 7-byte colour escape, makes no xvSyslog call, for every tag.
C12_HeaderOnly ==
    ( /\ IsWriteOp
      /\ op.level <= s_log_default_level
      /\ op.format \in {Hdr, Hdr \o Space, Colour \o Hdr, Colour \o Hdr \o Space} )
        => sink = <<>>


\* ------------------------------------------------------------------------
\* Property of the specification SpecF, formats of every length.

\* C13 (length-guarded pattern checks): for a format of any length, the
\* empty one included, esp_log_writev indexes format only below its length;
\* a format of length <= 10 matches no pattern (nothing advanced, nothing
\* consumed), one of length <= 17 is never advanced by 18; the length left
\* behind the header is never negative, and an empty format makes no
\* xvSyslog call.
C13_LengthGuarded ==
    IsWriteOp
        => LET n == Len(op.format)
           IN  /\ \A i \in reads : 0 <= i /\ i < n
               /\ n <= 10 => (cursor = 0 /\ resLen \in {<<>>, <<n>>})
               /\ n <= 17 => resLen \in {<<>>, <<n>>, <<n - 11>>}
               /\ resLen # <<>> => resLen[1] >= 0
               /\ n = 0 => sink = <<>>
               /\ sink # <<>> => Len(sink[1].format) = resLen[1]

\* length exactly 10: offset 10 is the terminator, not read, not matched
C13_Witness ==
    /\ IsWriteOp
    /\ Len(op.format) = 10
    /\ scanned
    /\ reads = {}
    /\ resLen = <<10>>
    /\ Len(sink) = 1

\* ------------------------------------------------------------------------
\* Property of the concurrent specification SpecC.

\* C8 (benign threshold race): under every interleaving each write reads the
\* threshold once and calls xvSyslog at most once; a returned call emitted or
\* dropped as the sequential code does for a threshold value that was current
\* during the call, and what it gave to xvSyslog is what the body computes
\* from the call's own level, tag, format and arguments.
C8_RaceBenign ==
    \A p \in Ctx :
        /\ nread[p] <= 1
        /\ Len(cout[p]) <= 1
        /\ Returned(p) =>
             /\ nread[p] = 1
             /\ \E t \in seen[p] :
                  cout[p] = IF cin[p].level <= t
                            THEN WritevBody(cin[p].level, cin[p].tag, cin[p].format,
                                            va_start(cin[p].args)).sink
                            ELSE <<>>

\* a call that emitted on a threshold replaced while it was running
C8_Witness ==
    \E p \in Ctx :
        /\ Returned(p)
        /\ Cardinality(seen[p]) > 1
        /\ cthr[p] # s_log_default_level
        /\ Len(cout[p]) = 1

====
